---- MODULE Spec2Model ----
(***************************************************************************)
(* A model of the wire encoding engine (package wire) and of the RPC layer *)
(* built on it (package rpc) of blitz-frost/wasm.                          *)
(*                                                                         *)
(* Go values are modelled together with their type descriptor:             *)
(*   <<"int">>, <<"string">>, ...            a basic kind                  *)
(*   <<"array", n, elem>>  <<"slice", elem>>  <<"map", key, elem>>         *)
(*   <<"struct", fieldTypes, exportedFlags>>                               *)
(*   <<"ptr", elem>>  <<"interface">>  <<"func">>  <<"chan">>              *)
(* A value of a basic numeric kind is a number, a string is a sequence of  *)
(* bytes, an array, slice or struct is a sequence of values, and a map is  *)
(* a function from keys to values.  A byte is a number in 0..255.          *)
(***************************************************************************)
EXTENDS Integers, Sequences, FiniteSets, TLC

VARIABLES
    wire,      \* the codec harness: one Encoder writing to, one Decoder reading from, a byte stream
    procs,     \* Server.procs: the registry, a function from names to procedures
    srv,       \* the Server and its serverConn: the serving loop's position, reader, staging buffer
    hs,        \* the HTTP request handlers of the server, one per client (its request in flight)
    cli,       \* the Clients: position of the stub invocation, staging buffer, last results
    ncalls,    \* the stub invocations made so far
    js,        \* package wasm: exportNext, the functions exported, whether ExportRaw panicked
    sz,        \* the size harness: a count, its size.Encode bytes, what size.Decode reads back
    stream     \* the stream harness: values encoded one after another, decoded one after another

vars == <<wire, procs, srv, hs, cli, ncalls, js, sz, stream>>

rpcVars == <<procs, srv, hs, cli, ncalls, js>>

(***************************************************************************)
(* Memory representation of numbers (little endian, two's complement).     *)
(***************************************************************************)

\* native word size in bytes, on a 64 bit target
uintSize == 8

\* TLC's integers are 32 bits wide: numbers read from memory saturate beyond this magnitude
IntLimit == 2 ^ 22

Huge == 256 * IntLimit

Min(a, b) == IF a < b THEN a ELSE b

simpleKinds ==
    {"bool", "int", "int8", "int16", "int32", "int64",
     "uint", "uint8", "uint16", "uint32", "uint64",
     "float32", "float64", "complex64", "complex128"}

signedKinds == {"int", "int8", "int16", "int32", "int64"}

\* reflect.Kind numbering, which is the kind tag written on the wire
KindByte(k) ==
    CASE k = "bool" -> 1 [] k = "int" -> 2 [] k = "int8" -> 3 [] k = "int16" -> 4
      [] k = "int32" -> 5 [] k = "int64" -> 6 [] k = "uint" -> 7 [] k = "uint8" -> 8
      [] k = "uint16" -> 9 [] k = "uint32" -> 10 [] k = "uint64" -> 11
      [] k = "float32" -> 13 [] k = "float64" -> 14 [] k = "complex64" -> 15
      [] k = "complex128" -> 16 [] k = "array" -> 17 [] k = "chan" -> 18
      [] k = "func" -> 19 [] k = "interface" -> 20 [] k = "map" -> 21
      [] k = "ptr" -> 22 [] k = "slice" -> 23 [] k = "string" -> 24
      [] k = "struct" -> 25

\* t.Size() of a basic kind
Size(k) ==
    CASE k \in {"bool", "int8", "uint8"} -> 1
      [] k \in {"int16", "uint16"} -> 2
      [] k \in {"int32", "uint32", "float32"} -> 4
      [] k \in {"int64", "uint64", "float64", "complex64"} -> 8
      [] k \in {"int", "uint"} -> uintSize
      [] k = "complex128" -> 16

RECURSIVE memBytes(_, _)
\* the n bytes a number occupies in memory
memBytes(x, n) ==
    IF n = 0 THEN <<>> ELSE <<x % 256>> \o memBytes(x \div 256, n - 1)

RECURSIVE memUnsigned(_)
memUnsigned(bs) ==
    IF bs = <<>> THEN 0
    ELSE LET hi == memUnsigned(Tail(bs))
         IN IF hi >= IntLimit THEN Huge ELSE Head(bs) + 256 * hi

RECURSIVE memSigned(_)
memSigned(bs) ==
    IF Len(bs) = 1 THEN (IF bs[1] >= 128 THEN bs[1] - 256 ELSE bs[1])
    ELSE LET hi == memSigned(Tail(bs))
         IN IF hi >= IntLimit THEN Huge
            ELSE IF hi < -IntLimit THEN -Huge
            ELSE Head(bs) + 256 * hi

memValue_unsigned(k, bs) == memUnsigned(bs)

\* the number that n bytes of memory hold, read as a value of kind k
memValue(k, bs) == IF k \in signedKinds THEN memSigned(bs) ELSE memUnsigned(bs)

marshalSimple(v, size) == memBytes(v, size)

marshalInt(i) == memBytes(i, uintSize)

(***************************************************************************)
(* Readers.  A reader state holds the unread bytes of the current byte     *)
(* slice (cur); for the server transport it also holds the request bodies  *)
(* that handlers hand over while a decode is in progress (q, each with the *)
(* handler it comes from) and the handlers whose body was received (took). *)
(***************************************************************************)

newReader(b) == [cur |-> b, q |-> <<>>, srv |-> FALSE, took |-> <<>>]

\* reader.done
done(rd) == rd.cur = <<>>

\* reader.Read: copies what is there, never fails; the caller's buffer starts zeroed
readerRead(rd, n) ==
    LET m == Min(n, Len(rd.cur))
    IN [blk |-> FALSE,
        data |-> [i \in 1..n |-> IF i <= m THEN rd.cur[i] ELSE 0],
        rd |-> [rd EXCEPT !.cur = SubSeq(rd.cur, m + 1, Len(rd.cur))]]

\* serverConn.sync: when the current body is read out, receive the next one from rch
sync(rd) ==
    IF ~done(rd) THEN [blk |-> FALSE, rd |-> rd]
    ELSE IF rd.q = <<>> THEN [blk |-> TRUE, rd |-> rd]
    ELSE [blk |-> FALSE,
          rd |-> [rd EXCEPT !.cur = Head(rd.q).b, !.q = Tail(rd.q),
                            !.took = Append(rd.took, Head(rd.q).h)]]

\* serverConn.Read
serverConnRead(rd, n) ==
    IF n = 0 THEN [blk |-> FALSE, data |-> <<>>, rd |-> rd]
    ELSE LET s == sync(rd)
         IN IF s.blk THEN [blk |-> TRUE, data |-> <<>>, rd |-> rd]
            ELSE readerRead(s.rd, n)

\* Decoder.src.Read
srcRead(rd, n) == IF rd.srv THEN serverConnRead(rd, n) ELSE readerRead(rd, n)

(***************************************************************************)
(* The size type: a count encoded in a variable number of bytes.  A count  *)
(* is held as the uintSize bytes it occupies in memory, least significant  *)
(* byte first.                                                             *)
(***************************************************************************)

\* x <<= 8, in memory: every byte moves up one place and the highest one is lost
sizeShift(xb) == <<0>> \o SubSeq(xb, 1, uintSize - 1)

RECURSIVE sizeScan(_, _)
\* for b[i] != 0 { i++ }, b indexed from 0 as in the program
sizeScan(b, i) == IF b[i + 1] # 0 THEN sizeScan(b, i + 1) ELSE i

\* the number of bytes size.Encode writes
sizeLen(b) == IF b[uintSize] # 0 THEN 8 ELSE sizeScan(b, 2)

\* size.Encode: what it writes to w
sizeEncode(xb) ==
    <<sizeLen(sizeShift(xb)) - 1>>
        \o SubSeq(sizeShift(xb), 2, sizeLen(sizeShift(xb)))

\* size.Decode, after the Read of the additional bytes (r2) into b[1 : b[0]+1]: the
\* uintSize bytes at b, shifted right by 8 as an unsigned number
sizeDecodeRest(b0, r2) ==
    [err |-> "",
     val |-> [i \in 1..uintSize |-> IF i <= b0 THEN r2.data[i] ELSE 0],
     rd |-> r2.rd]

\* size.Decode, after the Read of the first byte (r1)
sizeDecodeFirst(r1) ==
    IF r1.data[1] > 7 THEN [err |-> "size too large", val |-> <<>>, rd |-> r1.rd]
    ELSE sizeDecodeRest(r1.data[1], readerRead(r1.rd, r1.data[1]))

\* size.Decode from a reader
sizeDecode(rd) == sizeDecodeFirst(readerRead(rd, 1))

(***************************************************************************)
(* Encoder.  EncodeValue yields the set of possible results, one per order *)
(* in which the maps inside the value may be iterated: out is what has     *)
(* been written to the destination when the call ends, err is "" or the    *)
(* error ("panic" when the reflect package panics).  addr and ro are the   *)
(* reflect flags of the value: addressable, obtained from an unexported    *)
(* field.                                                                  *)
(***************************************************************************)

Perms(S) ==
    {f \in [1..Cardinality(S) -> S] :
        \A i, j \in 1..Cardinality(S) : i # j => f[i] # f[j]}

RECURSIVE EncodeValue(_, _, _, _)
RECURSIVE encodeAll(_)

NumField_exported(t) == Cardinality({i \in 1..Len(t[2]) : t[3][i]})

\* Value.NumField: the fields of a struct type, exported or not
NumField(t) == Len(t[2])

\* the items encoded one after another; the first failure ends the encoding
encodeAll(items) ==
    IF items = <<>> THEN {[out |-> <<>>, err |-> ""]}
    ELSE UNION {
        IF h.err # "" THEN {h}
        ELSE {[out |-> h.out \o r.out, err |-> r.err] : r \in encodeAll(Tail(items))}
        : h \in EncodeValue(items[1].t, items[1].v, items[1].addr, items[1].ro)}

EncodeValue(t, v, addr, ro) ==
    LET k == t[1]
        tag == <<KindByte(k)>>
        end(bs, e) == {[out |-> bs, err |-> e]}
        then(bs, items) ==
            {[out |-> bs \o r.out, err |-> r.err] : r \in encodeAll(items)}
    IN CASE k \in simpleKinds ->
              \* addressable() copies with Set, which panics on a read-only value
              IF ~addr /\ ro THEN end(tag, "panic")
              ELSE end(tag \o marshalSimple(v, Size(k)), "")
         [] k \in {"array", "slice"} ->
              IF ~addr /\ ro THEN end(tag, "panic")
              ELSE then(tag \o marshalInt(Len(v)),
                        [i \in 1..Len(v) |->
                            [t |-> IF k = "array" THEN t[3] ELSE t[2],
                             v |-> v[i], addr |-> TRUE, ro |-> ro]])
         [] k = "string" ->
              \* v.Interface() panics on a read-only value
              IF ro THEN end(tag \o marshalInt(Len(v)), "panic")
              ELSE end(tag \o marshalInt(Len(v)) \o v, "")
         [] k = "map" ->
              UNION {then(tag \o marshalInt(Cardinality(DOMAIN v)),
                          [i \in 1..(2 * Cardinality(DOMAIN v)) |->
                              IF i % 2 = 1
                              THEN [t |-> t[2], v |-> p[(i + 1) \div 2],
                                    addr |-> FALSE, ro |-> ro]
                              ELSE [t |-> t[3], v |-> v[p[i \div 2]],
                                    addr |-> FALSE, ro |-> ro]])
                     : p \in Perms(DOMAIN v)}
         [] k = "struct" ->
              then(tag \o marshalInt(NumField(t)),
                   [i \in 1..NumField(t) |->
                       [t |-> t[2][i], v |-> v[i], addr |-> addr,
                        ro |-> ro \/ ~t[3][i]]])
         [] OTHER -> end(tag, "unsupported type")

Encode_errorsDropped(t, v) ==
    {[out |-> r.out, err |-> ""] : r \in EncodeValue(t, v, FALSE, FALSE)}

\* Encoder.Encode: reflect.ValueOf(v) is neither addressable nor read-only
Encode(t, v) == EncodeValue(t, v, FALSE, FALSE)

(***************************************************************************)
(* Decoder.  DecodeValue yields err ("" on success, the error message,     *)
(* "panic", or "block" when the server transport has to wait for the next  *)
(* request body), the destination's value when the call ends, and the      *)
(* reader state.  old is the destination's value before the call.          *)
(***************************************************************************)

RECURSIVE Zero(_)
\* the zero value of a type
Zero(t) ==
    CASE t[1] \in simpleKinds -> 0
      [] t[1] = "array" -> [i \in 1..t[2] |-> Zero(t[3])]
      [] t[1] = "struct" -> [i \in 1..Len(t[2]) |-> Zero(t[2][i])]
      [] OTHER -> <<>>

SetMapIndex_dropsRest(m, key, val) == (key :> val)

SetMapIndex_keepsFirst(m, key, val) ==
    [x \in (DOMAIN m) \cup {key} |-> IF x \in DOMAIN m THEN m[x] ELSE val]

\* Value.SetMapIndex
SetMapIndex(m, key, val) ==
    [x \in (DOMAIN m) \cup {key} |-> IF x = key THEN val ELSE m[x]]

decodeResult(e, v, r) == [err |-> e, val |-> v, rd |-> r]

\* the native-width number in the bytes a Read returned
intOf(r) == [blk |-> r.blk, val |-> IF r.blk THEN 0 ELSE memSigned(r.data), rd |-> r.rd]

decodeInt(rd) == intOf(srcRead(rd, uintSize))

kindMatches_arraySliceAlike(tag, k) ==
    \/ tag = KindByte(k)
    \/ {tag, KindByte(k)} = {KindByte("array"), KindByte("slice")}

\* k != v.Kind()
kindMatches(tag, k) == tag = KindByte(k)

arrayLenOK_atMost(n, t) == n <= t[2]

\* n != t.Len()
arrayLenOK(n, t) == n = t[2]

fieldCountOK_atLeast(n, t) == n >= Len(t[2])

\* n != v.NumField()
fieldCountOK(n, t) == n = Len(t[2])

RECURSIVE DecodeValue(_, _, _, _)
RECURSIVE decodeAll(_, _)
RECURSIVE decodePairs(_, _, _, _, _)

decodeAllJoin(v, r) == [err |-> r.err, val |-> <<v>> \o r.val, rd |-> r.rd]

\* h is the result for the first destination
decodeAllFrom(items, h) ==
    IF h.err # ""
    THEN [err |-> h.err,
          val |-> <<h.val>> \o [i \in 1..(Len(items) - 1) |-> items[i + 1].old],
          rd |-> h.rd]
    ELSE decodeAllJoin(h.val, decodeAll(Tail(items), h.rd))

\* the destinations decoded one after another (the loops over elements and fields); the
\* first failure ends the decoding
decodeAll(items, rd) ==
    IF items = <<>> THEN decodeResult("", <<>>, rd)
    ELSE decodeAllFrom(items, DecodeValue(items[1].t, items[1].old, rd, items[1].ro))

decodePairVal(t, n, m, i, key, val) ==
    IF val.err # "" THEN decodeResult(val.err, m, val.rd)
    ELSE decodePairs(t, n, val.rd, SetMapIndex(m, key, val.val), i + 1)

decodePairKey(t, n, m, i, key) ==
    IF key.err # "" THEN decodeResult(key.err, m, key.rd)
    ELSE decodePairVal(t, n, m, i, key.val, DecodeValue(t[3], Zero(t[3]), key.rd, FALSE))

\* the loop of the map case: pair i of n is decoded and inserted into m
decodePairs(t, n, rd, m, i) ==
    IF i >= n THEN decodeResult("", m, rd)
    ELSE decodePairKey(t, n, m, i, DecodeValue(t[2], Zero(t[2]), rd, FALSE))

decodeSimple_unread(k, old, ro, rd, r2) ==
    IF r2.blk THEN decodeResult("block", old, rd)
    ELSE IF ro THEN decodeResult("panic", old, rd)
    ELSE decodeResult("", memValue(k, r2.data), rd)

\* the simple kinds, after the Read of t.Size() bytes (r2); Set panics on a read-only value
decodeSimple(k, old, ro, rd, r2) ==
    IF r2.blk THEN decodeResult("block", old, rd)
    ELSE IF ro THEN decodeResult("panic", old, r2.rd)
    ELSE decodeResult("", memValue(k, r2.data), r2.rd)

\* the string case, after the Read of the bytes (r2)
decodeString(old, ro, rd, r2) ==
    IF r2.blk THEN decodeResult("block", old, rd)
    ELSE IF ro THEN decodeResult("panic", old, r2.rd)
    ELSE decodeResult("", r2.data, r2.rd)

MakeMap_keepsOld(t, old) == old

\* v.Set(reflect.MakeMap(t)): what the destination, which held old, holds before the pairs
\* are inserted
MakeMap(t, old) == <<>>

\* the cases that start with a count, after decodeInt (n)
decodeCounted(t, old, ro, rd, n) ==
    IF n.blk THEN decodeResult("block", old, rd)
    ELSE CASE t[1] = "array" ->
                IF ~arrayLenOK(n.val, t)
                THEN decodeResult("missmatching array length", old, n.rd)
                ELSE decodeAll([i \in 1..t[2] |-> [t |-> t[3], old |-> old[i], ro |-> ro]],
                               n.rd)
           [] t[1] = "slice" ->
                \* MakeSlice panics on a negative length and cannot allocate a huge one;
                \* Set panics on a read-only value
                IF n.val < 0 \/ n.val >= Huge \/ ro THEN decodeResult("panic", old, n.rd)
                ELSE decodeAll([i \in 1..n.val |->
                                   [t |-> t[2], old |-> Zero(t[2]), ro |-> ro]],
                               n.rd)
           [] t[1] = "string" ->
                IF n.val < 0 \/ n.val >= Huge THEN decodeResult("panic", old, n.rd)
                ELSE decodeString(old, ro, n.rd, srcRead(n.rd, n.val))
           [] t[1] = "map" ->
                IF ro THEN decodeResult("panic", old, n.rd)
                ELSE decodePairs(t, n.val, n.rd, MakeMap(t, old), 0)
           [] t[1] = "struct" ->
                IF ~fieldCountOK(n.val, t)
                THEN decodeResult("field count missmatch", old, n.rd)
                ELSE decodeAll([i \in 1..Len(t[2]) |->
                                   [t |-> t[2][i], old |-> old[i], ro |-> ro \/ ~t[3][i]]],
                               n.rd)

\* after the Read of the kind tag (r1)
decodeTagged(t, old, ro, rd, r1) ==
    IF r1.blk THEN decodeResult("block", old, rd)
    ELSE IF ~kindMatches(r1.data[1], t[1])
    THEN decodeResult("incompatible value", old, r1.rd)
    ELSE IF t[1] \in simpleKinds
    THEN decodeSimple(t[1], old, ro, r1.rd, srcRead(r1.rd, Size(t[1])))
    ELSE IF t[1] \in {"array", "slice", "string", "map", "struct"}
    THEN decodeCounted(t, old, ro, r1.rd, decodeInt(r1.rd))
    ELSE decodeResult("unsupported type", old, r1.rd)

DecodeValue(t, old, rd, ro) == decodeTagged(t, old, ro, rd, srcRead(rd, 1))

\* Decoder.Decode into a pointer to a value of type t holding old
Decode(t, old, rd) == DecodeValue(t, old, rd, FALSE)

tBool == <<"bool">>
tInt == <<"int">>
tInt8 == <<"int8">>
tUint8 == <<"uint8">>
tString == <<"string">>

(***************************************************************************)
(* Package rpc.  A Go function is [id, in, out]: the behaviour it has and  *)
(* its parameter and result types; the error type is <<"interface",        *)
(* "error">>.  An error value is [nil, msg, local]: msg holds the bytes of *)
(* a message that came over the wire, local the text of an error raised by *)
(* the codec itself.                                                       *)
(***************************************************************************)

errorType == <<"interface", "error">>

Implements(t) == t = errorType

noErr == [nil |-> TRUE, msg |-> <<>>, local |-> ""]

errNew(m) == [nil |-> FALSE, msg |-> m, local |-> ""]

errLocal(e) == [nil |-> FALSE, msg |-> <<>>, local |-> e]

newProcedure_outputsUnchecked(f) ==
    LET n == Len(f.out)
        hasError == n > 0 /\ Implements(f.out[n])
    IN IF \E i \in 1..Len(f.in) : f.in[i][1] = "interface"
       THEN [err |-> "function has interface argument", proc |-> <<>>]
       ELSE [err |-> "",
             proc |-> [f |-> f, inType |-> f.in,
                       numOut |-> IF hasError THEN n - 1 ELSE n, hasError |-> hasError]]

\* newProcedure
newProcedure(f) ==
    LET numIn == Len(f.in)
        n == Len(f.out)
        hasError == n > 0 /\ Implements(f.out[n])
        numOut == IF hasError THEN n - 1 ELSE n
    IN IF \E i \in 1..numIn : f.in[i][1] = "interface"
       THEN [err |-> "function has interface argument", proc |-> <<>>]
       ELSE IF \E i \in 1..numOut : f.out[i][1] = "interface"
       THEN [err |-> "function has interface return value", proc |-> <<>>]
       ELSE [err |-> "",
             proc |-> [f |-> f, inType |-> f.in, numOut |-> numOut, hasError |-> hasError]]

sOk == <<111, 107>>
sBad == <<98, 97, 100>>

\* the registered functions' bodies: what f.Call(in) returns
Call(f, in) ==
    CASE f.id = "Add" -> <<in[1] + in[2], noErr>>
      [] f.id = "Sub" -> <<in[1] - in[2], noErr>>
      [] f.id = "Chk" -> IF in[1] >= 0 THEN <<sOk, noErr>> ELSE <<<<>>, errNew(sBad)>>
      [] f.id = "Ptr" -> <<0, noErr>>
      [] f.id = "Nil" -> <<errNew(<<>>)>>
      [] f.id = "Emp" -> <<<<>>, errNew(<<>>)>>

\* procedure.call
call(p, in) ==
    LET r == Call(p.f, in)
    IN IF p.hasError /\ ~r[Len(r)].nil
       THEN [out |-> <<>>, err |-> r[Len(r)]]
       ELSE [out |-> SubSeq(r, 1, p.numOut), err |-> noErr]

\* buffer.Write
bufferWrite(buf, b) == buf \o b

(***************************************************************************)
(* Server.Serve up to the flush, as a function of the registry, the server *)
(* transport's reader state and the staging buffer.  It yields the set of  *)
(* possible results (one per order the encoder may iterate maps in):       *)
(*   kind "block"  the decode waits in sync for the next request body      *)
(*   kind "panic"  the goroutine panics                                    *)
(*   kind "error"  Serve returns err without writing                       *)
(*   kind "write"  Serve calls buf.WriteTo(conn) with resp                 *)
(***************************************************************************)
\* no procedure called
noServed == [name |-> <<>>, id |-> "", types |-> <<>>, out |-> <<>>, err |-> noErr]

serveResult(kind, err, rd, buf, resp) ==
    [kind |-> kind, err |-> err, rd |-> rd, buf |-> buf, resp |-> resp, call |-> noServed]

\* the result x of an iteration that called procedure p, with what the call returned
withCall(x, p, c) ==
    [x EXCEPT !.call = [name |-> <<>>, id |-> p.f.id,
                        types |-> SubSeq(p.f.out, 1, Len(c.out)), out |-> c.out,
                        err |-> c.err]]

\* the result x of an iteration that looked up name
withName(x, name) == [x EXCEPT !.call.name = name]

decodeFailure(what, d, buf) ==
    IF d.err = "block" THEN serveResult("block", <<>>, d.rd, buf, <<>>)
    ELSE IF d.err = "panic" THEN serveResult("panic", <<>>, d.rd, buf, <<>>)
    ELSE serveResult("error", <<what, d.err>>, d.rd, buf, <<>>)

\* after the encoding of the error string (e) and of the outputs (o)
serveEncoded(rd, buf, e, o) ==
    IF o.err = "panic"
    THEN serveResult("panic", <<>>, rd, bufferWrite(buf, e.out \o o.out), <<>>)
    ELSE IF o.err # ""
    THEN serveResult("error", <<"return value encode error", o.err>>, rd,
                     bufferWrite(buf, e.out \o o.out), <<>>)
    ELSE serveResult("write", <<>>, rd, bufferWrite(buf, e.out \o o.out),
                     bufferWrite(buf, e.out \o o.out))

\* after p.call (c): the error string is encoded, and the outputs only if the error is nil
serveCalled(p, rd, buf, c) ==
    UNION {
        IF e.err # ""
        THEN {serveResult(IF e.err = "panic" THEN "panic" ELSE "error",
                          <<"error encode error", e.err>>, rd,
                          bufferWrite(buf, e.out), <<>>)}
        ELSE {withCall(serveEncoded(rd, buf, e, o), p, c) :
                o \in encodeAll(IF c.err.nil
                                THEN [i \in 1..Len(c.out) |->
                                         [t |-> p.f.out[i], v |-> c.out[i],
                                          addr |-> FALSE, ro |-> FALSE]]
                                ELSE <<>>)}
        : e \in Encode(tString, IF c.err.nil THEN <<>> ELSE c.err.msg)}

\* after the decoding of the inputs (in)
serveInputs(p, buf, in) ==
    IF in.err # "" THEN {decodeFailure("input decode error", in, buf)}
    ELSE serveCalled(p, in.rd, buf, call(p, in.val))

\* after the decoding of the name
serveNamed(registry, buf, name) ==
    IF name.err # "" THEN {decodeFailure("name decode error", name, buf)}
    ELSE IF name.val \notin DOMAIN registry
    THEN {serveResult("error", <<"invalid name">>, name.rd, buf, <<>>)}
    ELSE {withName(x, name.val) :
            x \in serveInputs(registry[name.val], buf,
                              decodeAll([i \in 1..Len(registry[name.val].inType) |->
                                            [t |-> registry[name.val].inType[i],
                                             old |-> Zero(registry[name.val].inType[i]),
                                             ro |-> FALSE]],
                                        name.rd))}

Serve(registry, rd, buf) == serveNamed(registry, buf, Decode(tString, <<>>, rd))

(***************************************************************************)
(* Client.Bind and the stub it installs.                                   *)
(***************************************************************************)

Bind_errorOptional(ft) ==
    LET n == Len(ft.out)
        numOut == IF n > 0 /\ Implements(ft.out[n]) THEN n - 1 ELSE n
    IN IF \E i \in 1..Len(ft.in) : ft.in[i][1] = "interface"
       THEN "function has interface argument"
       ELSE IF \E i \in 1..numOut : ft.out[i][1] = "interface"
       THEN "function has interface output"
       ELSE ""

\* Client.Bind: the checks on the function type
Bind(ft) ==
    LET numOut == Len(ft.out) - 1
    IN IF \E i \in 1..Len(ft.in) : ft.in[i][1] = "interface"
       THEN "function has interface argument"
       ELSE IF numOut < 0 \/ ~Implements(ft.out[numOut + 1])
       THEN "function does not return an error"
       ELSE IF \E i \in 1..numOut : ft.out[i][1] = "interface"
       THEN "function has interface output"
       ELSE ""

\* the stub up to the flush: the staging buffer after encoding the name and the arguments
stubEncode(name, ft, args, buf) ==
    {[err |-> r.err, buf |-> bufferWrite(buf, r.out)] :
        r \in encodeAll(<<[t |-> tString, v |-> name, addr |-> FALSE, ro |-> FALSE]>>
                        \o [i \in 1..Len(args) |->
                               [t |-> ft.in[i], v |-> args[i], addr |-> FALSE, ro |-> FALSE]])}

stubResults(outs) ==
    [results |-> outs.val,
     err |-> IF outs.err = "" THEN noErr ELSE errLocal(outs.err),
     rd |-> outs.rd]

\* after the decoding of the error string
stubErrStr(ft, errStr) ==
    IF errStr.err # ""
    THEN [results |-> [i \in 1..(Len(ft.out) - 1) |-> Zero(ft.out[i])],
          err |-> errLocal(errStr.err), rd |-> errStr.rd]
    ELSE IF errStr.val # <<>>
    THEN [results |-> [i \in 1..(Len(ft.out) - 1) |-> Zero(ft.out[i])],
          err |-> errNew(errStr.val), rd |-> errStr.rd]
    ELSE stubResults(decodeAll([i \in 1..(Len(ft.out) - 1) |->
                                   [t |-> ft.out[i], old |-> Zero(ft.out[i]), ro |-> FALSE]],
                               errStr.rd))

\* the stub after the flush: the results decoded from the response clientConn.Write stored
stubDecode(ft, resp) == stubErrStr(ft, Decode(tString, <<>>, newReader(resp)))

(***************************************************************************)
(* The codec harness: a value is encoded into a byte stream (the staging   *)
(* buffer of package rpc as io.Writer), and the stream is decoded through  *)
(* a reader (package rpc's reader as io.Reader) into a destination.        *)
(***************************************************************************)

tPair == <<"struct", <<tInt, tString>>, <<TRUE, TRUE>>>>
tInts2 == <<"struct", <<tInt, tInt>>, <<TRUE, TRUE>>>>
tInts3 == <<"struct", <<tInt, tInt, tInt>>, <<TRUE, TRUE, TRUE>>>>
tMapSI == <<"map", tString, tInt>>
tHidden == <<"struct", <<tInt, tInt>>, <<FALSE, TRUE>>>>
tHiddenMap == <<"struct", <<tMapSI, tString>>, <<FALSE, TRUE>>>>
tMixed ==
    <<"struct",
      <<tMapSI, <<"slice", tPair>>, <<"array", 2, tBool>>, <<"float64">>>>,
      <<TRUE, TRUE, TRUE, TRUE>>>>

sA == <<97>>
sB == <<98>>
mAB == (sA :> 1) @@ (sB :> 2)

\* the values the harness encodes, each with its type
Samples ==
    << <<tBool, 0>>, <<tBool, 1>>,
       <<tInt, -1>>, <<tInt, 2>>, <<tInt, 300>>,
       <<tInt8, -128>>, <<tUint8, 255>>,
       <<<<"int16">>, -2>>, <<<<"uint16">>, 65535>>,
       <<<<"int32">>, -70000>>, <<<<"uint32">>, 70000>>,
       <<<<"int64">>, -1>>, <<<<"uint64">>, 5>>, <<<<"uint">>, 66000>>,
       <<<<"float32">>, 1065353216>>, <<<<"float64">>, 7>>,
       <<<<"complex64">>, 3>>, <<<<"complex128">>, 9>>,
       <<tString, <<>>>>, <<tString, sA>>, <<tString, <<97, 0, 98>>>>,
       <<<<"array", 2, tInt>>, <<1, 2>>>>,
       <<<<"array", 4, tInt8>>, <<1, 2, 3, 4>>>>,
       <<<<"array", 5, tInt8>>, <<1, 2, 3, 4, 5>>>>,
       <<<<"array", 0, tInt>>, <<>>>>,
       <<<<"slice", tInt>>, <<>>>>, <<<<"slice", tInt>>, <<7>>>>,
       <<<<"slice", tInt>>, <<7, 8>>>>,
       <<<<"slice", tInt8>>, <<1, 2, 3, 4>>>>,
       <<<<"slice", tString>>, <<sA, <<>>>>>>,
       <<<<"slice", <<"array", 2, tInt8>>>>, <<<<1, 2>>, <<3, 4>>>>>>,
       <<<<"array", 2, <<"slice", tUint8>>>>, <<<<1>>, <<>>>>>>,
       <<tMapSI, <<>>>>, <<tMapSI, mAB>>,
       <<<<"map", tString, tString>>, (sA :> sB)>>,
       <<<<"map", <<"array", 1, tInt>>, tMapSI>>, (<<1>> :> mAB) @@ (<<2>> :> (sB :> 3))>>,
       <<<<"map", tInts2, tBool>>, (<<1, 2>> :> 1)>>,
       <<<<"slice", <<"array", 4, tInt8>>>>, <<<<1, 2, 3, 4>>>>>>,
       <<<<"slice", tInts2>>, <<<<1, 2>>>>>>, <<<<"slice", tInts3>>, <<<<1, 2, 3>>>>>>,
       <<tPair, <<5, sA>>>>, <<tInts2, <<1, 2>>>>, <<tInts3, <<1, 2, 3>>>>,
       <<tMixed, <<mAB, <<<<1, sA>>, <<2, sB>>>>, <<1, 0>>, 7>>>>,
       <<<<"struct", <<>>, <<>>>>, <<>>>>,
       <<tHidden, <<1, 2>>>>, <<tHiddenMap, <<<<>>, sA>>>>,
       <<<<"slice", tHidden>>, <<<<1, 2>>>>>>,
       <<<<"ptr", tInt>>, 0>>, <<<<"slice", <<"interface">>>>, <<0>>>>,
       <<<<"struct", <<tInt, <<"func">>>>, <<TRUE, TRUE>>>>, <<1, 0>>>>,
       <<<<"chan", tInt>>, 0>>, <<<<"func">>, 0>>,
       <<<<"array", 2, <<"chan", tInt>>>>, <<0, 0>>>>,
       <<<<"map", tString, <<"ptr", tInt>>>>, (sA :> 0)>>,
       <<<<"slice", <<"struct", <<<<"interface">>>>, <<TRUE>>>>>>, <<<<0>>>>>> >>

\* the destinations the harness decodes into: a type and the value held before
Dests ==
    [i \in 1..(2 * Len(Samples)) |->
        IF i <= Len(Samples) THEN Samples[i]
        ELSE <<Samples[i - Len(Samples)][1], Zero(Samples[i - Len(Samples)][1])>>]

WireInit ==
    wire = [pc |-> "start", t |-> tBool, v |-> 0, out |-> <<>>, err |-> "",
            dt |-> tBool, old |-> 0, res |-> [err |-> "", val |-> 0, rd |-> newReader(<<>>)]]

\* Encoder.Encode of a value, in one of the orders its maps may be iterated in
WEncode ==
    /\ wire.pc = "start"
    /\ UNCHANGED <<rpcVars, sz, stream>>
    /\ \E i \in 1..Len(Samples) :
         \E r \in Encode(Samples[i][1], Samples[i][2]) :
            wire' = [wire EXCEPT !.pc = "encoded", !.t = Samples[i][1],
                                 !.v = Samples[i][2], !.out = r.out, !.err = r.err]

\* Decoder.Decode into a destination, of the bytes the stream holds when Encode has
\* returned (nil or an error)
WDecode ==
    /\ wire.pc = "encoded"
    /\ UNCHANGED <<rpcVars, sz, stream>>
    /\ wire.err \in {"", "unsupported type"}
    /\ \E j \in 1..Len(Dests) :
         wire' = [wire EXCEPT !.pc = "decoded", !.dt = Dests[j][1], !.old = Dests[j][2],
                              !.res = Decode(Dests[j][1], Dests[j][2], newReader(wire.out))]

(***************************************************************************)
(* The size harness: a count is written with size.Encode into a byte       *)
(* stream, and size.Decode reads the stream through a reader.              *)
(***************************************************************************)

\* the values the bytes of the counts take
SizeBytes == {0, 1, 255}

\* the counts the harness encodes, 0 <= x <= 2^56-1, as they lie in memory
SizeCounts == {xb \in [1..uintSize -> SizeBytes] : xb[uintSize] = 0}

SizeInit == sz = [pc |-> "start", x |-> <<>>, out |-> <<>>, res |-> <<>>]

\* x.Encode(w), w being a staging buffer
SizeEncode ==
    /\ sz.pc = "start"
    /\ \E xb \in SizeCounts :
         sz' = [sz EXCEPT !.pc = "encoded", !.x = xb,
                          !.out = bufferWrite(<<>>, sizeEncode(xb))]
    /\ UNCHANGED <<wire, stream, rpcVars>>

\* x.Decode(r), r being a reader of the bytes written
SizeDecode ==
    /\ sz.pc = "encoded"
    /\ sz' = [sz EXCEPT !.pc = "decoded", !.res = sizeDecode(newReader(sz.out))]
    /\ UNCHANGED <<wire, stream, rpcVars>>

(***************************************************************************)
(* The stream harness: one Encoder encodes values one after another into a *)
(* byte stream, then one Decoder decodes them one after another from a     *)
(* reader of the stream.                                                   *)
(***************************************************************************)

\* the values encoded into one stream
MaxStream == 2

StreamInit ==
    stream = [pc |-> "start", items |-> <<>>, out |-> <<>>, ends |-> <<>>, err |-> "",
              rd |-> newReader(<<>>), res |-> <<>>]

\* Encoder.Encode of one more value: its bytes follow those of the values before
StreamEncode ==
    /\ stream.pc = "start"
    /\ Len(stream.items) < MaxStream
    /\ \E i \in 1..Len(Samples) :
         \E r \in Encode(Samples[i][1], Samples[i][2]) :
            stream' = [stream EXCEPT !.items = Append(@, i),
                                     !.out = bufferWrite(@, r.out),
                                     !.ends = Append(@, Len(stream.out) + Len(r.out)),
                                     !.err = r.err,
                                     !.pc = IF r.err = "" THEN "start" ELSE "failed"]
    /\ UNCHANGED <<wire, sz, rpcVars>>

\* the stream is handed to a reader, from which the Decoder will read
StreamOpen ==
    /\ stream.pc = "start"
    /\ stream.items # <<>>
    /\ stream' = [stream EXCEPT !.pc = "decoding", !.rd = newReader(stream.out)]
    /\ UNCHANGED <<wire, sz, rpcVars>>

streamDecoded(d) ==
    [stream EXCEPT !.rd = d.rd,
                   !.res = Append(@, [err |-> d.err, val |-> d.val, left |-> Len(d.rd.cur)]),
                   !.pc = IF d.err = "" THEN "decoding" ELSE "failed"]

\* Decoder.Decode of the next value, into a destination of the type of the value encoded
\* at that place, holding that type's zero value or a value of its own
StreamDecode ==
    /\ stream.pc = "decoding"
    /\ Len(stream.res) < Len(stream.items)
    /\ \E old \in {Zero(Samples[stream.items[Len(stream.res) + 1]][1]),
                   Samples[stream.items[Len(stream.res) + 1]][2]} :
         stream' = streamDecoded(Decode(Samples[stream.items[Len(stream.res) + 1]][1], old,
                                        stream.rd))
    /\ UNCHANGED <<wire, sz, rpcVars>>


(***************************************************************************)
(* The RPC system: one Server, its request handlers, and the Clients.      *)
(***************************************************************************)

\* the Clients that exist (each a Client value of its own, in a program of its own)
NClients == 2

\* the stub invocations made in one run
MaxCalls == 3

\* the Register calls made before ListenAndServe
MaxRegs == 2

Clients == 1..NClients

nAdd == <<65, 100, 100>>
nChk == <<67, 104, 107>>
nPtr == <<80>>
nNil == <<78>>
nEmp == <<69>>

tPtr == <<"ptr", tInt>>

fAdd == [id |-> "Add", in |-> <<tInt, tInt>>, out |-> <<tInt, errorType>>]
fSub == [id |-> "Sub", in |-> <<tInt, tInt>>, out |-> <<tInt, errorType>>]
fChk == [id |-> "Chk", in |-> <<tInt>>, out |-> <<tString, errorType>>]
fAny == [id |-> "Chk", in |-> <<<<"interface">>>>, out |-> <<tString, errorType>>]
fPtr == [id |-> "Ptr", in |-> <<>>, out |-> <<tPtr, errorType>>]
\* procedures that fail with errors.New("")
fNil == [id |-> "Nil", in |-> <<>>, out |-> <<errorType>>]
fEmp == [id |-> "Emp", in |-> <<tInt>>, out |-> <<tString, errorType>>]

\* the Register calls the server program may make
Registrations ==
    <<<<nAdd, fAdd>>, <<nChk, fChk>>, <<nAdd, fSub>>, <<nChk, fAny>>, <<nPtr, fPtr>>,
      <<nNil, fNil>>, <<nEmp, fEmp>>>>

\* the stub invocations the client programs may make: the name and the function type the
\* stub was bound with, and the arguments
Invocations ==
    <<[name |-> nAdd, ft |-> [in |-> <<tInt, tInt>>, out |-> <<tInt, errorType>>],
       args |-> <<2, 3>>],
      [name |-> nAdd, ft |-> [in |-> <<tInt, tInt>>, out |-> <<tInt, errorType>>],
       args |-> <<1, 1>>],
      [name |-> nChk, ft |-> [in |-> <<tInt>>, out |-> <<tString, errorType>>],
       args |-> <<1>>],
      [name |-> nChk, ft |-> [in |-> <<tInt>>, out |-> <<tString, errorType>>],
       args |-> <<-1>>],
      [name |-> nAdd, ft |-> [in |-> <<tInt>>, out |-> <<tInt, errorType>>],
       args |-> <<7>>],
      [name |-> nChk, ft |-> [in |-> <<tInt, tInt>>, out |-> <<tString, errorType>>],
       args |-> <<1, 9>>],
      [name |-> nPtr, ft |-> [in |-> <<>>, out |-> <<tPtr, errorType>>], args |-> <<>>],
      [name |-> nChk, ft |-> [in |-> <<tPtr>>, out |-> <<tString, errorType>>],
       args |-> <<0>>],
      [name |-> nNil, ft |-> [in |-> <<>>, out |-> <<errorType>>], args |-> <<>>],
      [name |-> nEmp, ft |-> [in |-> <<tInt>>, out |-> <<tString, errorType>>],
       args |-> <<1>>]>>

\* the Register calls and stub invocations of the server and client programs of the main
\* system, and those of the programs whose procedures fail with an empty message
MainRegs == 1..5
MainCalls == 1..8
FailRegs == {2, 6, 7}
FailCalls == {3, 4, 9, 10}

\* request bodies posted to the server's URL by HTTP clients that are not stubs: a string
\* whose length is -1
Posts == <<<<24, 255, 255, 255, 255, 255, 255, 255, 255>>>>

tAnys == <<"slice", <<"interface">>>>

\* function types given to Bind and Register
Signatures ==
    <<[id |-> "Sig", in |-> <<tInt, tInt>>, out |-> <<tInt, errorType>>],
      [id |-> "Sig", in |-> <<tInt>>, out |-> <<tInt>>],
      [id |-> "Sig", in |-> <<>>, out |-> <<>>],
      [id |-> "Sig", in |-> <<<<"interface">>>>, out |-> <<tString, errorType>>],
      [id |-> "Sig", in |-> <<tInt>>, out |-> <<<<"interface">>, errorType>>],
      [id |-> "Sig", in |-> <<tAnys>>, out |-> <<tInt, errorType>>],
      [id |-> "Sig", in |-> <<tInt>>, out |-> <<errorType, tInt>>],
      [id |-> "Sig", in |-> <<tPtr>>, out |-> <<tPtr, errorType>>],
      [id |-> "Sig", in |-> <<>>, out |-> <<errorType>>],
      [id |-> "Sig", in |-> <<tInt>>, out |-> <<<<"map", tString, tAnys>>, errorType>>]>>

noCall == [inv |-> 0, results |-> <<>>, err |-> noErr, sent |-> FALSE]

noIter == [err |-> <<>>, took |-> <<>>, wrote |-> FALSE, n |-> 0]

\* NewServer, NewClient
RpcInit ==
    /\ procs = <<>>
    /\ srv = [pc |-> "init", regs |-> 0, r |-> <<>>, taken |-> <<>>, buf |-> <<>>,
              resp |-> <<>>, took |-> <<>>, last |-> noIter, pend |-> 0, ret |-> "",
              call |-> noServed, over |-> FALSE, alt |-> "", parked |-> FALSE,
              clean |-> TRUE]
    /\ hs = [c \in Clients |-> [st |-> "none", body |-> <<>>, resp |-> <<>>]]
    /\ cli = [c \in Clients |->
                [pc |-> "idle", buf |-> <<>>, inv |-> 0, last |-> noCall, slot |-> 0,
                 berr |-> ""]]
    /\ ncalls = 0

\* the width of exportNext in bits (32 in the program)
ExportBits == 7

exportOverflow_never(n) == FALSE

\* exportNext == 0
exportOverflow(n) == n = 0

\* exportNext uint32 = 1
JsInit == js = [exportNext |-> 1, made |-> 0, panicked |-> FALSE]

\* ExportRaw: panics when the counter is 0, else increments it and creates the function
ExportRaw ==
    /\ IF exportOverflow(js.exportNext)
       THEN js' = [js EXCEPT !.panicked = TRUE]
       ELSE js' = [js EXCEPT !.exportNext = (@ + 1) % (2 ^ ExportBits), !.made = @ + 1]
    /\ UNCHANGED <<wire, sz, stream, procs, srv, hs, cli, ncalls>>

Init == WireInit /\ RpcInit /\ JsInit /\ SizeInit /\ StreamInit

\* the state of serverConn's reader when a Serve iteration starts, with the request bodies
\* the iteration has received since
serverReader == [cur |-> srv.r, q |-> srv.taken, srv |-> TRUE, took |-> <<>>]

\* Server.Register(name, f)
RegisterFn(name, f) ==
    /\ srv.pc = "init"
    /\ srv.regs < MaxRegs
    /\ LET p == newProcedure(f)
       IN procs' = IF p.err # "" THEN procs
                   ELSE SetMapIndex(procs, name, p.proc)
    /\ srv' = [srv EXCEPT !.regs = @ + 1,
                          !.over = @ \/ (/\ newProcedure(f).err = ""
                                         /\ name \in DOMAIN procs
                                         /\ procs[name].f # f)]
    /\ UNCHANGED <<wire, sz, stream, js, hs, cli, ncalls>>

\* Server.Register of one of the procedures the server program has
Register(i) == RegisterFn(Registrations[i][1], Registrations[i][2])

\* Server.Register of a function of one of the signatures
SigRegister(k) == RegisterFn(nAdd, Signatures[k])

\* Client.Bind(name, fptr) with a function slot of one of the signatures: the stub is
\* installed in the slot if the checks pass
ClientBind(c, k) ==
    /\ cli[c].pc = "idle"
    /\ cli' = [cli EXCEPT ![c].slot = IF Bind(Signatures[k]) = "" THEN k ELSE @,
                          ![c].berr = Bind(Signatures[k])]
    /\ UNCHANGED <<wire, sz, stream, js, procs, srv, hs, ncalls>>

\* Server.ListenAndServe: the serving loop starts and the listener accepts requests
ListenAndServe ==
    /\ srv.pc = "init"
    /\ srv' = [srv EXCEPT !.pc = "serve"]
    /\ UNCHANGED <<wire, sz, stream, js, procs, hs, cli, ncalls>>

\* a bound stub is invoked: it encodes the name and the arguments and flushes them as one
\* POST, whose handler captures the body and offers it on rch
ClientCall(c, i) ==
    /\ srv.pc \in {"serve", "flush"}
    /\ srv.ret = ""
    /\ cli[c].pc = "idle"
    /\ ncalls < MaxCalls
    /\ Bind(Invocations[i].ft) = ""
    /\ ncalls' = ncalls + 1
    /\ \E e \in stubEncode(Invocations[i].name, Invocations[i].ft, Invocations[i].args,
                            cli[c].buf) :
         IF e.err # ""
         THEN /\ cli' = [cli EXCEPT ![c].buf = e.buf,
                                    ![c].last = [inv |-> i, results |-> <<>>,
                                                 err |-> errLocal(e.err),
                                                 sent |-> FALSE]]
              /\ hs' = hs
         ELSE /\ cli' = [cli EXCEPT ![c].pc = "posting", ![c].inv = i, ![c].buf = <<>>]
              /\ hs' = [hs EXCEPT ![c] = [st |-> "send", body |-> e.buf, resp |-> <<>>]]
    /\ UNCHANGED <<wire, sz, stream, js, procs, srv>>

\* a POST that no stub made arrives: its handler captures the body and offers it on rch
Post(c, i) ==
    /\ srv.pc \in {"serve", "flush"}
    /\ srv.ret = ""
    /\ cli[c].pc = "idle"
    /\ ncalls < MaxCalls
    /\ ncalls' = ncalls + 1
    /\ cli' = [cli EXCEPT ![c].pc = "posting", ![c].inv = 0]
    /\ hs' = [hs EXCEPT ![c] = [st |-> "send", body |-> Posts[i], resp |-> <<>>]]
    /\ UNCHANGED <<wire, sz, stream, js, procs, srv>>

\* serverConn.sync receives a request body from rch while the decoder waits for bytes;
\* the handler goes on to wait on wch
ServerTake(h) ==
    /\ srv.pc = "serve"
    /\ hs[h].st = "send"
    /\ \A o \in Serve(procs, serverReader, srv.buf) : o.kind = "block"
    /\ srv' = [srv EXCEPT !.taken = Append(@, [h |-> h, b |-> hs[h].body]),
                          !.pend = @ + 1, !.alt = "read", !.parked = FALSE]
    /\ hs' = [hs EXCEPT ![h].st = "wait"]
    /\ UNCHANGED <<wire, sz, stream, js, procs, cli, ncalls>>

ServeError_stops ==
    /\ srv.pc = "serve"
    /\ \E o \in Serve(procs, serverReader, srv.buf) :
         /\ o.kind = "error"
         /\ srv' = [srv EXCEPT !.pc = "stopped", !.r = o.rd.cur, !.taken = <<>>,
                               !.buf = o.buf,
                               !.last = [err |-> o.err, took |-> o.rd.took,
                                         wrote |-> FALSE, n |-> 0]]
    /\ UNCHANGED <<wire, sz, stream, js, procs, hs, cli, ncalls>>

\* Serve returns an error; the loop of ListenAndServe prints it and calls Serve again
ServeError ==
    /\ srv.pc = "serve"
    /\ \E o \in Serve(procs, serverReader, srv.buf) :
         /\ o.kind = "error"
         /\ srv' = [srv EXCEPT !.r = o.rd.cur, !.taken = <<>>, !.buf = o.buf,
                               !.clean = FALSE,
                               !.last = [err |-> o.err, took |-> o.rd.took,
                                         wrote |-> FALSE, n |-> 0]]
    /\ UNCHANGED <<wire, sz, stream, js, procs, hs, cli, ncalls>>

\* a panic in Serve ends the server process
ServePanic ==
    /\ srv.pc = "serve"
    /\ \E o \in Serve(procs, serverReader, srv.buf) :
         /\ o.kind = "panic"
         /\ srv' = [srv EXCEPT !.pc = "crashed"]
    /\ UNCHANGED <<wire, sz, stream, js, procs, hs, cli, ncalls>>

\* Serve reaches buf.WriteTo(conn): serverConn.Write offers the response on wch
ServeFlush ==
    /\ srv.pc = "serve"
    /\ \E o \in Serve(procs, serverReader, srv.buf) :
         /\ o.kind = "write"
         /\ srv' = [srv EXCEPT !.pc = "flush", !.r = o.rd.cur, !.taken = <<>>,
                               !.buf = o.buf, !.resp = o.resp, !.took = o.rd.took,
                               !.call = o.call,
                               !.clean = /\ @
                                         /\ srv.r = <<>> /\ srv.buf = <<>>
                                         /\ Len(o.rd.took) = 1 /\ o.rd.cur = <<>>]
    /\ UNCHANGED <<wire, sz, stream, js, procs, hs, cli, ncalls>>

\* the serving goroutine is inside a channel operation of serverConn (the receive from rch
\* in sync, the send to wch in Write), or about to enter one
atChannel ==
    \/ srv.pc = "flush"
    \/ srv.pc = "serve" /\ \A o \in Serve(procs, serverReader, srv.buf) : o.kind = "block"

\* the HTTP listener fails: serverConn.ListenAndServe stores the error in x.err and returns
\* it, and Server.ListenAndServe stores it in err and returns it to its caller; no request
\* is accepted any more.  The serving goroutine goes on: it is parked in a channel
\* operation if it had passed the check of x.err when the error was stored.
ListenerFail ==
    /\ srv.pc \in {"serve", "flush"}
    /\ srv.ret = ""
    /\ \E parked \in {atChannel, FALSE} :
         srv' = [srv EXCEPT !.ret = "listener error", !.parked = parked]
    /\ UNCHANGED <<wire, sz, stream, js, procs, hs, cli, ncalls>>

\* after the listener failed, the serving goroutine calls Read, ReadByte or Write of the
\* server transport, which returns x.err: Serve returns an error without a completed Write
\* (WriteTo has emptied the staging buffer if it was the Write), and the loop, whose
\* condition is err == nil, ends
LoopStop ==
    /\ srv.pc \in {"serve", "flush"}
    /\ srv.ret # ""
    /\ ~srv.parked
    /\ srv' = [srv EXCEPT !.pc = "exited",
                          !.buf = IF srv.pc = "flush" THEN <<>> ELSE @,
                          !.resp = <<>>, !.clean = FALSE,
                          !.last = [err |-> <<"listener error">>, took |-> srv.took,
                                    wrote |-> FALSE, n |-> 0]]
    /\ UNCHANGED <<wire, sz, stream, js, procs, hs, cli, ncalls>>

\* a handler waiting on wch receives the response and writes it as its HTTP response;
\* serverConn.Write returns, WriteTo empties the buffer, Serve returns nil
ServerWrite(h) ==
    /\ srv.pc = "flush"
    /\ hs[h].st = "wait"
    /\ hs' = [hs EXCEPT ![h].st = "done", ![h].resp = srv.resp]
    /\ srv' = [srv EXCEPT !.pc = "serve", !.buf = <<>>, !.resp = <<>>, !.took = <<>>,
                          !.pend = @ - 1, !.alt = "write", !.parked = FALSE,
                          !.last = [err |-> <<>>, took |-> srv.took, wrote |-> TRUE,
                                    n |-> h]]
    /\ UNCHANGED <<wire, sz, stream, js, procs, cli, ncalls>>

stubReturn(i, d) == [inv |-> i, results |-> d.results, err |-> d.err, sent |-> TRUE]

\* http.Post returns: clientConn.Write stores the response body and the stub decodes it
ClientReturn(c) ==
    /\ hs[c].st = "done"
    /\ cli[c].pc = "posting"
    /\ cli' = [cli EXCEPT ![c].pc = "idle",
                          ![c].last = IF cli[c].inv = 0 THEN noCall
                                      ELSE stubReturn(cli[c].inv,
                                                      stubDecode(Invocations[cli[c].inv].ft,
                                                                 hs[c].resp))]
    /\ hs' = [hs EXCEPT ![c] = [st |-> "none", body |-> <<>>, resp |-> <<>>]]
    /\ UNCHANGED <<wire, sz, stream, js, procs, srv, ncalls>>

\* what the server does by itself: the serving goroutine and the request handlers
ServerNext ==
    \/ \E h \in Clients : ServerTake(h)
    \/ ServeError
    \/ ServePanic
    \/ ServeFlush
    \/ LoopStop
    \/ \E h \in Clients : ServerWrite(h)

Next ==
    \/ \E i \in MainRegs : Register(i)
    \/ ListenAndServe
    \/ \E c \in Clients, i \in MainCalls : ClientCall(c, i)
    \/ \E c \in Clients, i \in 1..Len(Posts) : Post(c, i)
    \/ ServerNext
    \/ ListenerFail
    \/ \E c \in Clients : ClientReturn(c)

Spec == Init /\ [][Next]_vars

FNext ==
    \/ \E i \in FailRegs : Register(i)
    \/ ListenAndServe
    \/ \E c \in Clients, i \in FailCalls : ClientCall(c, i)
    \/ \E c \in Clients, i \in 1..Len(Posts) : Post(c, i)
    \/ ServerNext
    \/ ListenerFail
    \/ \E c \in Clients : ClientReturn(c)

\* the system with procedures that fail with an empty message
SpecFail == Init /\ [][FNext]_vars

\* the serving goroutine can go on within Serve: a request body is offered while it waits in
\* sync, or the iteration can run to its end (the enabling condition of ServerTake,
\* ServeError, ServePanic and ServeFlush together)
ServeReady ==
    /\ srv.pc = "serve"
    /\ \/ \E o \in Serve(procs, serverReader, srv.buf) : o.kind # "block"
       \/ \E h \in Clients : hs[h].st = "send"

\* the goroutines of the server run: a step of theirs that stays possible is eventually
\* taken; requests, Register calls and the failure of the listener come from outside and
\* need not happen.  For the steps inside Serve, each of which changes the state and none
\* of which can be repeated for ever, weak fairness is written with the enabling condition
\* spelled out.
Fairness ==
    /\ WF_vars(\E h \in Clients : ServerWrite(h))
    /\ WF_vars(LoopStop)
    /\ []<>~ServeReady

SpecLive == SpecFail /\ Fairness

BNext ==
    \/ \E k \in 1..Len(Signatures) : SigRegister(k)
    \/ \E k \in 1..Len(Signatures) : ClientBind(1, k)

\* Bind and Register alone; a Bind involves one Client only, and the first one makes them
SpecBind == Init /\ [][BNext]_vars

ENext == ExportRaw

\* ExportRaw alone
SpecExport == Init /\ [][ENext]_vars

WNext == WEncode \/ WDecode

\* the codec alone
SpecWire == Init /\ [][WNext]_vars

ZNext == SizeEncode \/ SizeDecode

\* the size type alone
SpecSize == Init /\ [][ZNext]_vars

TNext == StreamEncode \/ StreamOpen \/ StreamDecode

\* the codec on a stream of several values
SpecStream == Init /\ [][TNext]_vars

\* the stub of invocation i is bound to a registered name with the signature of the
\* procedure registered under it
Bound(i) ==
    /\ Invocations[i].name \in DOMAIN procs
    /\ procs[Invocations[i].name].f.in = Invocations[i].ft.in
    /\ procs[Invocations[i].name].f.out = Invocations[i].ft.out

\* what the registered procedure returns for the arguments of invocation i
Returned(i) == call(procs[Invocations[i].name], Invocations[i].args)

\* the last stub invocation of Client c has returned
HasReturned(c) == cli[c].last.inv # 0

(***************************************************************************)
(* C1: when a stub bound to a registered name with the procedure's         *)
(* signature is called and the procedure returns outputs and no failure    *)
(* for the arguments, the call returns exactly those outputs and a nil     *)
(* error.                                                                  *)
(***************************************************************************)
C1_RpcSuccess ==
    \A c \in Clients :
        (HasReturned(c) /\ Bound(cli[c].last.inv) /\ Returned(cli[c].last.inv).err.nil) =>
            /\ cli[c].last.results = Returned(cli[c].last.inv).out
            /\ cli[c].last.err = noErr

(***************************************************************************)
(* C2: when the registered procedure returns a failure with message m, the *)
(* call returns an error with message m and the zero value for every other *)
(* result.                                                                 *)
(***************************************************************************)
C2_FailurePropagation ==
    \A c \in Clients :
        (HasReturned(c) /\ Bound(cli[c].last.inv) /\ ~Returned(cli[c].last.inv).err.nil) =>
            /\ cli[c].last.err = errNew(Returned(cli[c].last.inv).err.msg)
            /\ cli[c].last.results =
                   [i \in 1..(Len(Invocations[cli[c].last.inv].ft.out) - 1) |->
                       Zero(Invocations[cli[c].last.inv].ft.out[i])]

(***************************************************************************)
(* C3: a Serve iteration that fails with the invalid-name error leaves no  *)
(* request it received unanswered: no handler whose body it took is still  *)
(* waiting for a response when Serve has returned.                         *)
(***************************************************************************)
C3_UnknownProcedure ==
    srv.last.err = <<"invalid name">> =>
        \A i \in 1..Len(srv.last.took) : hs[srv.last.took[i]].st # "wait"

(***************************************************************************)
(* C4: calls are served one at a time: at most one request whose body the  *)
(* serving loop has dequeued is not yet answered, and the bytes a Serve    *)
(* iteration decodes come from one request body (neither from two bodies   *)
(* nor from what an earlier iteration left in the reader).                 *)
(***************************************************************************)
C4_Serialized ==
    /\ Cardinality({h \in Clients : hs[h].st = "wait"}) <= 1
    /\ Len(srv.taken) <= 1
    /\ (srv.taken # <<>> => srv.r = <<>>)

(***************************************************************************)
(* C5: every receipt of a request body is answered by exactly one Write    *)
(* before the next receipt: receipts never run more than one ahead of      *)
(* Writes, and a Serve iteration that received a body has written when it  *)
(* ends, whatever its outcome.                                             *)
(***************************************************************************)
C5_ReadAnswered ==
    /\ srv.pend \in {0, 1}
    /\ (srv.last.took # <<>> => (srv.last.wrote /\ Len(srv.last.took) = 1))

(***************************************************************************)
(* What decoding the encoding of v (of type ts) into a destination of type *)
(* td is to end with, read off the two shapes: "" for success or the first *)
(* failure met, walking the value in encoding order.  A map may be walked  *)
(* in any order, hence a set.                                              *)
(***************************************************************************)

RECURSIVE Outcomes(_, _, _, _)
RECURSIVE outcomesAll(_)

outcomesAll(items) ==
    IF items = <<>> THEN {""}
    ELSE LET h == Outcomes(items[1][1], items[1][2], items[1][3], items[1][4])
         IN (h \ {""}) \cup (IF "" \in h THEN outcomesAll(Tail(items)) ELSE {})

\* ro: the destination is (inside) an unexported field, which reflect refuses to set
Outcomes(ts, v, td, ro) ==
    IF ts[1] # td[1] THEN {"incompatible value"}
    ELSE CASE ts[1] \in simpleKinds \cup {"string"} -> IF ro THEN {"panic"} ELSE {""}
           [] ts[1] = "array" ->
                IF ts[2] # td[2] THEN {"missmatching array length"}
                ELSE outcomesAll([i \in 1..Len(v) |-> <<ts[3], v[i], td[3], ro>>])
           [] ts[1] = "slice" ->
                IF ro THEN {"panic"}
                ELSE outcomesAll([i \in 1..Len(v) |-> <<ts[2], v[i], td[2], FALSE>>])
           [] ts[1] = "struct" ->
                IF Len(ts[2]) # Len(td[2]) THEN {"field count missmatch"}
                ELSE outcomesAll([i \in 1..Len(v) |->
                                     <<ts[2][i], v[i], td[2][i], ro \/ ~td[3][i]>>])
           [] ts[1] = "map" ->
                LET per == {outcomesAll(<< <<ts[2], key, td[2], FALSE>>,
                                           <<ts[3], v[key], td[3], FALSE>> >>)
                            : key \in DOMAIN v}
                IN IF ro THEN {"panic"}
                   ELSE (UNION {o \ {""} : o \in per})
                        \cup (IF \A o \in per : "" \in o THEN {""} ELSE {})
           [] OTHER -> {"unsupported type"}

RECURSIVE Supported(_)
\* the types the package supports: concrete and flat, records with exported fields only
Supported(t) ==
    CASE t[1] \in simpleKinds \cup {"string"} -> TRUE
      [] t[1] = "array" -> Supported(t[3])
      [] t[1] = "slice" -> Supported(t[2])
      [] t[1] = "map" -> Supported(t[2]) /\ Supported(t[3])
      [] t[1] = "struct" -> \A i \in 1..Len(t[2]) : t[3][i] /\ Supported(t[2][i])
      [] OTHER -> FALSE

WDecoded == wire.pc = "decoded"

\* the bytes the decode has consumed
WConsumed == Len(wire.out) - Len(wire.res.rd.cur)

C7_MapEquality ==
    (WDecoded /\ wire.t[1] = "map" /\ Supported(wire.t) /\ wire.dt = wire.t) =>
        /\ wire.res.err = ""
        /\ DOMAIN wire.res.val = DOMAIN wire.v
        /\ \A key \in DOMAIN wire.v : wire.res.val[key] = wire.v[key]

\* {"a":1, "b":2} encoded with the pair of "b" first
C7_Witness ==
    /\ WDecoded
    /\ wire.t = tMapSI /\ wire.dt = tMapSI /\ wire.v = mAB
    /\ SubSeq(wire.out, 2 + 2 * uintSize + 1, 2 + 2 * uintSize + 1) = sB
    /\ wire.res.val = mAB

(***************************************************************************)
(* C8: whenever a kind tag in the stream differs from the kind of the      *)
(* destination it is decoded into, at the top level or nested, Decode      *)
(* fails with "incompatible value".                                        *)
(***************************************************************************)
C8_KindMismatch ==
    (WDecoded /\ Outcomes(wire.t, wire.v, wire.dt, FALSE) = {"incompatible value"}) =>
        wire.res.err = "incompatible value"

\* a string-tagged second field decoded into an integer field
C8_Witness ==
    /\ WDecoded
    /\ wire.t = tPair /\ wire.dt = tInts2
    /\ wire.res.err = "incompatible value"

(***************************************************************************)
(* C9: decoding a fixed-array payload whose count differs from the         *)
(* destination array's length fails with the array length error; when the  *)
(* array is the top-level value, the destination is left as it was and     *)
(* only the tag and the count have been read.                              *)
(***************************************************************************)
C9_ArrayLength ==
    /\ (WDecoded /\ Outcomes(wire.t, wire.v, wire.dt, FALSE) = {"missmatching array length"}) =>
           wire.res.err = "missmatching array length"
    /\ (WDecoded /\ wire.t[1] = "array" /\ wire.dt[1] = "array" /\ wire.t[2] # wire.dt[2]) =>
           /\ wire.res.val = wire.old
           /\ WConsumed = 1 + uintSize

\* a payload of count 4 decoded into an array of length 5
C9_Witness ==
    /\ WDecoded
    /\ wire.t = <<"array", 4, tInt8>> /\ wire.dt = <<"array", 5, tInt8>>
    /\ wire.old = <<1, 2, 3, 4, 5>>
    /\ wire.res.err = "missmatching array length"

(***************************************************************************)
(* C10: decoding a record payload whose field count differs from the       *)
(* destination record's field count fails with the field count error; when *)
(* the record is the top-level value, the destination is left as it was    *)
(* and only the tag and the count have been read.                          *)
(***************************************************************************)
C10_FieldCount ==
    /\ (WDecoded /\ Outcomes(wire.t, wire.v, wire.dt, FALSE) = {"field count missmatch"}) =>
           wire.res.err = "field count missmatch"
    /\ (WDecoded /\ wire.t[1] = "struct" /\ wire.dt[1] = "struct"
            /\ Len(wire.t[2]) # Len(wire.dt[2])) =>
           /\ wire.res.val = wire.old
           /\ WConsumed = 1 + uintSize

\* a payload of 3 fields decoded into a record of 2 fields
C10_Witness ==
    /\ WDecoded
    /\ wire.t = tInts3 /\ wire.dt = tInts2
    /\ wire.old = <<1, 2>>
    /\ wire.res.err = "field count missmatch"

unsupportedKinds == {"ptr", "interface", "func", "chan"}

RECURSIVE HasUnsupported(_, _)
\* the value (of type t) is or contains a value of an unsupported kind
HasUnsupported(t, v) ==
    CASE t[1] \in unsupportedKinds -> TRUE
      [] t[1] = "array" -> \E i \in 1..Len(v) : HasUnsupported(t[3], v[i])
      [] t[1] = "slice" -> \E i \in 1..Len(v) : HasUnsupported(t[2], v[i])
      [] t[1] = "map" ->
           \E key \in DOMAIN v : HasUnsupported(t[2], key) \/ HasUnsupported(t[3], v[key])
      [] t[1] = "struct" -> \E i \in 1..Len(v) : HasUnsupported(t[2][i], v[i])
      [] OTHER -> FALSE

RECURSIVE ExportedOnly(_)
\* every record type in t has exported fields only
ExportedOnly(t) ==
    CASE t[1] = "array" -> ExportedOnly(t[3])
      [] t[1] \in {"slice", "ptr", "chan"} -> ExportedOnly(t[2])
      [] t[1] = "map" -> ExportedOnly(t[2]) /\ ExportedOnly(t[3])
      [] t[1] = "struct" -> \A i \in 1..Len(t[2]) : t[3][i] /\ ExportedOnly(t[2][i])
      [] OTHER -> TRUE

RECURSIVE AllExported(_)
\* the type t with every field of every record type exported
AllExported(t) ==
    CASE t[1] = "array" -> <<"array", t[2], AllExported(t[3])>>
      [] t[1] = "slice" -> <<"slice", AllExported(t[2])>>
      [] t[1] = "map" -> <<"map", AllExported(t[2]), AllExported(t[3])>>
      [] t[1] = "struct" ->
           <<"struct", [i \in 1..Len(t[2]) |-> AllExported(t[2][i])],
             [i \in 1..Len(t[2]) |-> TRUE]>>
      [] OTHER -> t

WEncoded == wire.pc # "start"

WIsRecord == wire.t[1] = "struct"

\* the bytes of the stream that hold the record's field count
WCount == SubSeq(wire.out, 2, 1 + uintSize)

\* the stream read back by a receiver whose record types have the same fields, all exported
WReadBack == Decode(AllExported(wire.t), Zero(wire.t), newReader(wire.out))

(***************************************************************************)
(* C12 (as the code has it): encoding a record writes a field count equal  *)
(* to the number of all its fields, and then every field in positional     *)
(* order, the non-exported ones too.  A record with a non-exported field   *)
(* is not skipped over: when Encode returns nil the stream holds all its   *)
(* fields, and when the record is not addressable and its first field is a *)
(* non-exported number, Encode panics.                                     *)
(***************************************************************************)
C12_AllFields ==
    /\ (WEncoded /\ WIsRecord) => WCount = marshalInt(Len(wire.t[2]))
    /\ (WEncoded /\ wire.err = "" /\ ~HasUnsupported(wire.t, wire.v)) =>
           (WReadBack.err = "" /\ WReadBack.val = wire.v /\ WReadBack.rd.cur = <<>>)
    /\ (WEncoded /\ WIsRecord /\ Len(wire.t[2]) > 0 /\ ~wire.t[3][1]
            /\ wire.t[2][1][1] \in simpleKinds) => wire.err = "panic"

\* a record whose first field is a non-exported (empty) map: Encode returns nil and the
\* stream holds two fields
C12_Witness ==
    /\ WEncoded
    /\ wire.t = tHiddenMap
    /\ wire.err = ""
    /\ WCount = marshalInt(2)
    /\ WReadBack.val = <<<<>>, sA>>

(***************************************************************************)
(* C12 (as stated): encoding a record writes a field count equal to the    *)
(* number of its exported fields, and encoding a record that has           *)
(* non-exported fields succeeds.                                           *)
(***************************************************************************)
C12_ExportedOnly ==
    (WEncoded /\ WIsRecord /\ ~HasUnsupported(wire.t, wire.v)) =>
        /\ wire.err = ""
        /\ WCount = marshalInt(Cardinality({i \in 1..Len(wire.t[2]) : wire.t[3][i]}))

(***************************************************************************)
(* C13: no request body makes the serving process crash: whatever bodies   *)
(* have been received, the serving goroutine has not panicked.             *)
(***************************************************************************)
C13_NoCrash == srv.pc # "crashed"

ResponseOf(c) ==
    {e.out \o o.out :
        e \in Encode(tString, IF c.err.nil THEN <<>> ELSE c.err.msg),
        o \in {x \in encodeAll(IF c.err.nil
                               THEN [i \in 1..Len(c.out) |->
                                        [t |-> c.types[i], v |-> c.out[i],
                                         addr |-> FALSE, ro |-> FALSE]]
                               ELSE <<>>) : x.err = ""}}

(***************************************************************************)
(* C15: the response a Serve iteration hands to its Write is the encoding  *)
(* of the failure message followed by the encodings of the outputs in      *)
(* order when the procedure reported no failure, and the encoding of the   *)
(* failure message alone when it reported one.                             *)
(***************************************************************************)
C15_ResponseFormat == srv.pc = "flush" => srv.resp \in ResponseOf(srv.call)

\* encode(name) followed by the encodings of the arguments of invocation i
RequestOf(i) ==
    {r.out : r \in encodeAll(<<[t |-> tString, v |-> Invocations[i].name,
                                addr |-> FALSE, ro |-> FALSE]>>
                             \o [j \in 1..Len(Invocations[i].args) |->
                                    [t |-> Invocations[i].ft.in[j],
                                     v |-> Invocations[i].args[j],
                                     addr |-> FALSE, ro |-> FALSE]])}

(***************************************************************************)
(* C16: every invocation of a stub makes one transport write: an           *)
(* invocation that has returned has written, and the body of the POST an   *)
(* invocation has made is the encoding of the name followed by the         *)
(* encodings of its arguments in order.                                    *)
(***************************************************************************)
C16_OneWrite ==
    \A c \in Clients :
        /\ HasReturned(c) => cli[c].last.sent
        /\ (cli[c].pc = "posting" /\ cli[c].inv # 0) => hs[c].body \in RequestOf(cli[c].inv)

\* no type of the list is itself an interface type
TopConcrete(ts) == \A i \in 1..Len(ts) : ts[i][1] # "interface"

RECURSIVE DeepConcrete(_)
\* the type is not an interface type and contains none
DeepConcrete(t) ==
    CASE t[1] = "interface" -> FALSE
      [] t[1] = "array" -> DeepConcrete(t[3])
      [] t[1] \in {"slice", "ptr", "chan"} -> DeepConcrete(t[2])
      [] t[1] = "map" -> DeepConcrete(t[2]) /\ DeepConcrete(t[3])
      [] t[1] = "struct" -> \A i \in 1..Len(t[2]) : DeepConcrete(t[2][i])
      [] OTHER -> TRUE

EndsWithError(ft) == Len(ft.out) > 0 /\ ft.out[Len(ft.out)] = errorType

\* the outputs without a trailing failure output
Positional(ft) ==
    IF EndsWithError(ft) THEN SubSeq(ft.out, 1, Len(ft.out) - 1) ELSE ft.out

RegisterAccepts(ft) == TopConcrete(ft.in) /\ TopConcrete(Positional(ft))

BindAccepts(ft) == EndsWithError(ft) /\ RegisterAccepts(ft)

C18_BindNeedsError ==
    [][/\ \A c \in Clients, k \in 1..Len(Signatures) :
             (ClientBind(c, k) /\ ~EndsWithError(Signatures[k])) =>
                 (cli'[c].berr # "" /\ cli'[c].slot = cli[c].slot)
       /\ \A c \in Clients :
             cli'[c].slot # 0 => EndsWithError(Signatures[cli'[c].slot])]_vars

\* Bind of a function without return values has failed and the stub installed before is
\* still in the slot
C18_Witness ==
    \E c \in Clients :
        /\ cli[c].berr = "function does not return an error"
        /\ cli[c].slot = 1

(***************************************************************************)
(* C19: a successful Register puts its function under the name, replacing  *)
(* what was there, and leaves the other names alone; a Register that fails *)
(* validation leaves the registry unchanged; the procedure a Serve         *)
(* iteration calls for a name is the one registered last under it.         *)
(***************************************************************************)
C19_ReRegister ==
    [][/\ \A i \in 1..Len(Registrations) :
             Register(i) =>
                 IF RegisterAccepts(Registrations[i][2])
                 THEN /\ DOMAIN procs' = DOMAIN procs \cup {Registrations[i][1]}
                      /\ procs'[Registrations[i][1]].f = Registrations[i][2]
                      /\ \A n \in DOMAIN procs \ {Registrations[i][1]} : procs'[n] = procs[n]
                 ELSE procs' = procs
       /\ srv'.pc = "flush" =>
             /\ srv'.call.name \in DOMAIN procs
             /\ srv'.call.id = procs[srv'.call.name].f.id]_vars

\* Add was registered first and Sub then under the same name: the call with (2, 3) is
\* answered with -1
C19_Witness ==
    /\ srv.over
    /\ srv.pc = "flush"
    /\ srv.call.name = nAdd /\ srv.call.id = "Sub"
    /\ srv.call.out = <<-1>>

(***************************************************************************)
(* C20: ExportRaw succeeds for at most 2^w - 1 calls, w being the width of *)
(* the counter: the counter starts at 1, is one more than the number of    *)
(* functions created (modulo 2^w), and ExportRaw has panicked only after   *)
(* the counter wrapped to 0, that is after 2^w - 1 functions; from then on *)
(* no function is created.                                                 *)
(***************************************************************************)
C20_ExportLimit ==
    /\ js.made <= 2 ^ ExportBits - 1
    /\ js.exportNext = (1 + js.made) % (2 ^ ExportBits)
    /\ js.panicked => (js.exportNext = 0 /\ js.made = 2 ^ ExportBits - 1)

\* the call after the counter wrapped has panicked
C20_Witness == js.panicked /\ js.made = 2 ^ ExportBits - 1

(***************************************************************************)
(* C30: the variable-length count encoding round-trips: for every count x  *)
(* with 0 <= x <= 2^56-1, size.Decode of the bytes size.Encode wrote for x *)
(* succeeds and yields x, and the first byte written is the number of      *)
(* bytes that follow it, at most 7.                                        *)
(***************************************************************************)
C30_SizeRoundTrip ==
    /\ sz.pc # "start" => (sz.out[1] = Len(sz.out) - 1 /\ sz.out[1] <= 7)
    /\ sz.pc = "decoded" => (sz.res.err = "" /\ sz.res.val = sz.x)

\* the values of the stream are all of supported types
StreamSupported == \A k \in 1..Len(stream.items) : Supported(Samples[stream.items[k]][1])

(***************************************************************************)
(* C27: when values of supported types are encoded one after another into  *)
(* one stream and decoded one after another into destinations of their     *)
(* types, every decode succeeds, yields the value encoded at its place,    *)
(* and has consumed the stream exactly up to the end of that value's       *)
(* bytes: no byte of the next value, and none left after the last.         *)
(***************************************************************************)
C27_Sequential ==
    StreamSupported =>
        /\ stream.err = ""
        /\ \A k \in 1..Len(stream.res) :
              /\ stream.res[k].err = ""
              /\ stream.res[k].val = Samples[stream.items[k]][2]
              /\ Len(stream.out) - stream.res[k].left = stream.ends[k]
        /\ Len(stream.res) = Len(stream.items) =>
              (stream.ends # <<>> => stream.ends[Len(stream.ends)] = Len(stream.out))

\* a map of two pairs and then a string were encoded, and both have been decoded from the
\* stream, the map into a destination that held other content
C27_Witness ==
    /\ Len(stream.items) = MaxStream
    /\ Len(stream.res) = Len(stream.items)
    /\ StreamSupported
    /\ Samples[stream.items[1]][1] = tMapSI
    /\ Samples[stream.items[1]][2] = mAB
    /\ Samples[stream.items[Len(stream.items)]][1] = tString
    /\ stream.res[1].val = mAB
    /\ stream.res[1].left = 1 + uintSize + 3
    /\ stream.res[Len(stream.res)].val = <<97, 0, 98>>
    /\ stream.res[Len(stream.res)].left = 0

(***************************************************************************)
(* C28: a successful decode into a mapping or a dynamic sequence discards  *)
(* what the destination held: the mapping has exactly the keys of the      *)
(* pairs in the stream, each with its value, and none of its earlier       *)
(* entries; the sequence has the encoded length and elements, whatever its *)
(* earlier length.                                                         *)
(***************************************************************************)
C28_DiscardsPrior ==
    (WDecoded /\ wire.err = "" /\ wire.res.err = "") =>
        /\ wire.dt[1] = "map" =>
              /\ DOMAIN wire.res.val = DOMAIN wire.v
              /\ \A key \in DOMAIN wire.v : wire.res.val[key] = wire.v[key]
              /\ \A key \in DOMAIN wire.old :
                    key \notin DOMAIN wire.v => key \notin DOMAIN wire.res.val
        /\ wire.dt[1] = "slice" =>
              /\ Len(wire.res.val) = Len(wire.v)
              /\ \A i \in 1..Len(wire.v) : wire.res.val[i] = wire.v[i]

\* an empty mapping was decoded into a destination that held two entries
C28_Witness ==
    /\ WDecoded
    /\ wire.res.err = ""
    /\ wire.dt = tMapSI /\ wire.t = tMapSI
    /\ wire.old = mAB /\ wire.v = <<>>
    /\ wire.res.val = <<>>

(***************************************************************************)
(* C24: every Serve iteration starts decoding at the first byte of a       *)
(* request body: whenever the loop is about to run Serve, the reader of    *)
(* the server transport holds no unread bytes of an earlier request.       *)
(***************************************************************************)
C24_CleanCursor == (srv.pc = "serve" /\ srv.taken = <<>>) => srv.r = <<>>

(***************************************************************************)
(* C25: the staging buffer is empty at the start of every Serve iteration  *)
(* and of every stub invocation: the server's whenever the loop is about   *)
(* to run Serve, a Client's whenever no invocation of its stubs is in      *)
(* progress.                                                               *)
(***************************************************************************)
C25_EmptyStaging ==
    /\ srv.pc = "serve" => srv.buf = <<>>
    /\ \A c \in Clients : cli[c].pc = "idle" => cli[c].buf = <<>>

(***************************************************************************)
(* C22: the response a Serve iteration writes is received by the handler   *)
(* of a request whose body that iteration decoded, never by the handler of *)
(* another request.                                                        *)
(***************************************************************************)
C22_Routing ==
    srv.last.wrote => \E i \in 1..Len(srv.last.took) : srv.last.took[i] = srv.last.n

(***************************************************************************)
(* C21: the handoff enforces the alternation of one Read of a new request  *)
(* body and one Write: a Read of a new body completes only if the          *)
(* transport operation completed before it was not such a Read, and a      *)
(* Write completes only if the one completed before it was not a Write.    *)
(***************************************************************************)
C21_Alternation ==
    [][\A h \in Clients :
          /\ ServerTake(h) => srv.alt # "read"
          /\ ServerWrite(h) => srv.alt # "write"]_vars

(***************************************************************************)
(* C23: while the serving loop runs (the listener has not failed and the   *)
(* process has not crashed), every request whose body the loop has         *)
(* received eventually gets its HTTP response.                             *)
(***************************************************************************)
C23_Answered ==
    \A h \in Clients :
        (hs[h].st = "wait") ~> (hs[h].st = "done" \/ srv.ret # "" \/ srv.pc = "crashed")

(***************************************************************************)
(* C26: when a stub bound to a registered name with the procedure's        *)
(* signature has been called over a transport that carried every request   *)
(* and response whole and to its place, the call has returned a nil error  *)
(* exactly if the procedure returned no failure.                           *)
(***************************************************************************)
C26_NilIffNoFailure ==
    \A c \in Clients :
        (HasReturned(c) /\ cli[c].last.sent /\ Bound(cli[c].last.inv) /\ srv.clean) =>
            (cli[c].last.err.nil <=> Returned(cli[c].last.inv).err.nil)

(***************************************************************************)
(* C29: after the listener has failed, the serving loop eventually stops.  *)
(***************************************************************************)
C29_LoopStops == (srv.ret # "") ~> (srv.pc \in {"exited", "crashed"})

====
